---- MODULE Spec2Model ----
(***************************************************************************)
(* A model of database-js-sqlparser's AbstractDriver (src/index.js): the   *)
(* predicate evaluator, the join engine, the projector/aggregator and the  *)
(* promise chains of runSQL and of the six statement executors, run        *)
(* against a backend whose calls settle in any order.                      *)
(*                                                                         *)
(* JavaScript values are tagged records [t, n]; rows are functions from    *)
(* key strings to values; a table snapshot is a sequence of rows, a row's  *)
(* index being its position.  LIKE / NOT LIKE and string values are not    *)
(* part of the model.                                                      *)
(***************************************************************************)
EXTENDS Integers, Sequences, FiniteSets, TLC

(* ------------------------------ bounds --------------------------------- *)
\* longest table snapshot a load resolves with
MaxRows == 2
\* most VALUES tuples of one INSERT
MaxTuples == 2

(* --------------------------- JavaScript values ------------------------- *)
Num(n) == [t |-> "number", n |-> n]
Bool(b) == [t |-> "boolean", n |-> IF b THEN 1 ELSE 0]
Undefined == [t |-> "undefined", n |-> 0]
NullV == [t |-> "null", n |-> 0]
NaN == [t |-> "nan", n |-> 0]

\* ToBoolean, as Array.filter and `if` apply it
Truthy(v) == v.t \in {"number", "boolean"} /\ v.n # 0

\* ToNumber yields NaN for undefined and for NaN itself
IsNaN(v) == v.t \in {"undefined", "nan"}

\* a == b
LooseEq(a, b) ==
    IF a.t = "nan" \/ b.t = "nan" THEN FALSE
    ELSE IF a.t \in {"undefined", "null"} \/ b.t \in {"undefined", "null"}
         THEN a.t \in {"undefined", "null"} /\ b.t \in {"undefined", "null"}
         ELSE a.n = b.n

\* a === b
StrictEq(a, b) == a.t # "nan" /\ a.t = b.t /\ a.n = b.n

\* a < b
Less(a, b) == ~IsNaN(a) /\ ~IsNaN(b) /\ a.n < b.n

\* a <= b
LessEq(a, b) == ~IsNaN(a) /\ ~IsNaN(b) /\ a.n <= b.n

\* a && b
AndAnd(a, b) == IF Truthy(a) THEN b ELSE a

\* a + b on the values SUM meets
Plus(a, b) == IF IsNaN(a) \/ IsNaN(b) THEN NaN ELSE Num(a.n + b.n)

\* row[key]: undefined when the key is absent
Get(row, key) == IF key \in DOMAIN row THEN row[key] ELSE Undefined

\* obj[key] = v
Put(row, key, v) == [k \in DOMAIN row \cup {key} |-> IF k = key THEN v ELSE row[k]]

EmptyRow == [k \in {} |-> Undefined]

(* ----------------------------- expressions ----------------------------- *)
\* a clause the statement does not have (where: null, orderby: null, ...)
Null == [type |-> "<null>"]

Col(tbl, c) == [type |-> "column_ref", table |-> tbl, column |-> c]
Lit(n) == [type |-> "number", value |-> Num(n)]
Bin(op, l, r) == [type |-> "binary_expr", operator |-> op, left |-> l, right |-> r]
Aggr(f, c) == [type |-> "aggr_func", name |-> f, args |-> [expr |-> Col("null", c)]]

\* namespace ? obj.table + "." + obj.column : obj.column
Field(obj, namespace) == IF namespace THEN obj.table \o "." \o obj.column ELSE obj.column

(* ------------------------- Predicate Evaluator ------------------------- *)
\* the switch with OR as a disjunction: left || right
BinaryExprOr(operator, l, r) ==
    CASE operator = "=" -> Bool(LooseEq(l, r))
      [] operator \in {"!=", "<>"} -> Bool(~LooseEq(l, r))
      [] operator = "<" -> Bool(Less(l, r))
      [] operator = "<=" -> Bool(LessEq(l, r))
      [] operator = ">" -> Bool(Less(r, l))
      [] operator = ">=" -> Bool(LessEq(r, l))
      [] operator = "AND" -> AndAnd(l, r)
      [] operator = "OR" -> IF Truthy(l) THEN l ELSE r
      [] operator = "IS" -> Bool(StrictEq(l, r))
      [] OTHER -> Bool(FALSE)

\* the switch on where.operator, on the two resolved operands
BinaryExpr(operator, l, r) ==
    CASE operator = "=" -> Bool(LooseEq(l, r))
      [] operator \in {"!=", "<>"} -> Bool(~LooseEq(l, r))
      [] operator = "<" -> Bool(Less(l, r))
      [] operator = "<=" -> Bool(LessEq(l, r))
      [] operator = ">" -> Bool(Less(r, l))
      [] operator = ">=" -> Bool(LessEq(r, l))
      [] operator = "AND" -> AndAnd(l, r)
      [] operator = "OR" -> AndAnd(l, r)
      [] operator = "IS" -> Bool(StrictEq(l, r))
      [] OTHER -> Bool(FALSE)

RECURSIVE doWhereNs(_, _, _, _)
RECURSIVE getVal(_, _, _, _)
\* the getVal closure of doWhere
getVal(obj, row, namespace, nested) ==
    IF obj.type = "column_ref" THEN Get(row, Field(obj, namespace))
    ELSE IF obj.type = "binary_expr" THEN doWhereNs(obj, row, nested, nested)
    ELSE obj.value

\* doWhere with the flag handed to nested expressions given apart
doWhereNs(where, row, namespace, nested) ==
    IF where = Null THEN Bool(TRUE)
    ELSE IF where.type # "binary_expr" THEN Bool(FALSE)
    ELSE BinaryExpr(where.operator,
                    getVal(where.left, row, namespace, nested),
                    getVal(where.right, row, namespace, nested))

\* doWhere(where, row, namespace = false): a nested binary_expr is evaluated
\* by this.doWhere(obj, row), that is without the flag
doWhere(where, row, namespace) == doWhereNs(where, row, namespace, FALSE)

(* ----------------------------- Join Engine ----------------------------- *)
\* bigrow: the keys of destRow, then those of srcRow over them
Merge(destRow, srcRow) ==
    [k \in DOMAIN destRow \cup DOMAIN srcRow |->
        IF k \in DOMAIN srcRow THEN srcRow[k] ELSE destRow[k]]

RECURSIVE SelectIdx(_, _, _)
\* s.filter(...) over positions: the elements of s whose position is in keep
SelectIdx(s, keep, i) ==
    IF i > Len(s) THEN <<>>
    ELSE (IF i \in keep THEN <<s[i]>> ELSE <<>>) \o SelectIdx(s, keep, i + 1)

\* the body of the nested loop with srcRow.used = true left out
JoinPairDestOnly(dest, src, query, namespace, i, j, bigrow, acc) ==
    IF Truthy(doWhere(query, bigrow, namespace))
    THEN [rows |-> Append(acc.rows, bigrow),
          destUsed |-> acc.destUsed \cup {i},
          srcUsed |-> acc.srcUsed]
    ELSE acc

\* the body of the nested loop for the pair (i, j)
JoinPair(dest, src, query, namespace, i, j, bigrow, acc) ==
    IF Truthy(doWhere(query, bigrow, namespace))
    THEN [rows |-> Append(acc.rows, bigrow),
          destUsed |-> acc.destUsed \cup {i},
          srcUsed |-> acc.srcUsed \cup {j}]
    ELSE acc

RECURSIVE JoinLoop(_, _, _, _, _, _)
\* the nested loop: p counts the (dest, src) pairs in dest-major order
JoinLoop(dest, src, query, namespace, p, acc) ==
    IF p > Len(dest) * Len(src) THEN acc
    ELSE JoinLoop(dest, src, query, namespace, p + 1,
                  JoinPair(dest, src, query, namespace,
                           ((p - 1) \div Len(src)) + 1, ((p - 1) % Len(src)) + 1,
                           Merge(dest[((p - 1) \div Len(src)) + 1], src[((p - 1) % Len(src)) + 1]),
                           acc))

\* the rows pushed after the loop: the unused rows of either side
JoinRest(dest, src, acc, includeAllDest, includeAllSrc) ==
    acc.rows
    \o (IF includeAllDest
        THEN SelectIdx(dest, (1..Len(dest)) \ acc.destUsed, 1) ELSE <<>>)
    \o (IF includeAllSrc
        THEN SelectIdx(src, (1..Len(src)) \ acc.srcUsed, 1) ELSE <<>>)

join(dest, src, query, includeAllDest, includeAllSrc, namespace) ==
    JoinRest(dest, src,
             JoinLoop(dest, src, query, namespace, 1,
                      [rows |-> <<>>, destUsed |-> {}, srcUsed |-> {}]),
             includeAllDest, includeAllSrc)

(* ------------------------------ clauses -------------------------------- *)
\* an optional list clause (groupby, orderby, limit): absent, or the list
Absent == <<>>
Present(list) == <<list>>
Has(clause) == Len(clause) > 0
ListOf(clause) == clause[1]

\* columns === "*"
Star == <<[expr |-> [type |-> "*"], as |-> ""]>>

\* String.prototype.toUpperCase on the names the statements use
ToUpperCase(s) ==
    CASE s \in {"sum", "Sum"} -> "SUM"
      [] s \in {"count", "Count"} -> "COUNT"
      [] s \in {"max"} -> "MAX"
      [] s \in {"xml", "Xml"} -> "XML"
      [] s \in {"array"} -> "ARRAY"
      [] s \in {"interval"} -> "INTERVAL"
      [] s \in {"multiset"} -> "MULTISET"
      [] s \in {"integer"} -> "INTEGER"
      [] s \in {"varchar"} -> "VARCHAR"
      [] OTHER -> s

(* ------------------------ Projector / Aggregator ----------------------- *)
RECURSIVE FindIndex(_, _, _, _)
\* data.findIndex(drow => groupby.every(group => drow[group.column] == row[group.column])),
\* 0 standing for -1
FindIndex(data, groupby, row, i) ==
    IF i > Len(data) THEN 0
    ELSE IF \A g \in 1..Len(groupby) :
               LooseEq(Get(data[i], groupby[g].column), Get(row, groupby[g].column))
         THEN i
         ELSE FindIndex(data, groupby, row, i + 1)

\* if (result == -1) { data.push({}); return data.length - 1 } return result
GroupAt(data, result) ==
    IF result = 0
    THEN [data |-> Append(data, EmptyRow), index |-> Len(data) + 1]
    ELSE [data |-> data, index |-> result]

\* the groupby() closure: the data list after it, and the index it returns
groupby(sqlobj, data, row) ==
    IF ~Has(sqlobj.groupby)
    THEN [data |-> IF Len(data) < 1 THEN <<EmptyRow>> ELSE data, index |-> 1]
    ELSE GroupAt(data, FindIndex(data, ListOf(sqlobj.groupby), row, 1))

\* case 'aggr_func' of the aggregate loop, under the column name chosen
AggregateFunc(col, drow, row, name, cur) ==
    CASE ToUpperCase(col.expr.name) = "SUM" ->
             Put(drow, name, Plus(IF cur.t = "undefined" THEN Num(0) ELSE cur,
                                  Get(row, col.expr.args.expr.column)))
      [] ToUpperCase(col.expr.name) = "COUNT" ->
             Put(drow, name, Plus(IF cur.t = "undefined" THEN Num(0) ELSE cur, Num(1)))
      [] OTHER -> drow

\* col.as || NAME(column)
AggregateName(col) ==
    IF col.as # "" THEN col.as
    ELSE ToUpperCase(col.expr.name) \o "(" \o col.expr.args.expr.column \o ")"

\* one column of the aggregate loop applied to the group row drow
AggregateColumn(col, drow, row) ==
    IF col.expr.type = "column_ref"
    THEN Put(drow, IF col.as # "" THEN col.as ELSE col.expr.column,
             Get(row, col.expr.column))
    ELSE IF col.expr.type = "aggr_func"
    THEN AggregateFunc(col, drow, row, AggregateName(col), Get(drow, AggregateName(col)))
    ELSE drow

RECURSIVE AggregateColumns(_, _, _, _)
AggregateColumns(columns, k, drow, row) ==
    IF k > Len(columns) THEN drow
    ELSE AggregateColumns(columns, k + 1, AggregateColumn(columns[k], drow, row), row)

\* result[name] = row[field]; if (result[name] === undefined) result[name] = null
FlatColumn(result, name, v) == Put(result, name, IF v.t = "undefined" THEN NullV ELSE v)

RECURSIVE FlatColumns(_, _, _, _, _)
\* the flat-mode loop over the columns
FlatColumns(columns, k, result, row, namespace) ==
    IF k > Len(columns) THEN result
    ELSE FlatColumns(columns, k + 1,
                     FlatColumn(result,
                                IF columns[k].as # "" THEN columns[k].as
                                ELSE Field(columns[k].expr, namespace),
                                Get(row, Field(columns[k].expr, namespace))),
                     row, namespace)

\* the aggregate loop run on the group row that groupby() chose
AggregateInto(sqlobj, group, row) ==
    [group.data EXCEPT ![group.index] =
        AggregateColumns(sqlobj.columns, 1, group.data[group.index], row)]

\* chooseFields: the data list after the row has been pushed into it
chooseFields(sqlobj, data, row, namespace) ==
    IF sqlobj.columns = Star THEN Append(data, row)
    ELSE IF \E k \in 1..Len(sqlobj.columns) : sqlobj.columns[k].expr.type = "aggr_func"
    THEN AggregateInto(sqlobj, groupby(sqlobj, data, row), row)
    ELSE Append(data, FlatColumns(sqlobj.columns, 1, EmptyRow, row, namespace))

RECURSIVE Project(_, _, _, _, _)
\* resultRows.map(row => this.chooseFields(sqlobj, result, row, namespace))
Project(sqlobj, result, resultRows, i, namespace) ==
    IF i > Len(resultRows) THEN result
    ELSE Project(sqlobj, chooseFields(sqlobj, result, resultRows[i], namespace),
                 resultRows, i + 1, namespace)

(* ------------------------------ ORDER BY ------------------------------- *)
RECURSIVE Compare(_, _, _, _, _)
\* the comparator on the values av, bv of one column: 0 where it goes on
CompareColumn(av, bv, asc) ==
    IF Less(bv, av) THEN (IF asc THEN 1 ELSE -1)
    ELSE IF Less(av, bv) THEN (IF asc THEN -1 ELSE 1)
    ELSE 0

\* after orderer k: return its verdict, or go on to the next orderer
CompareNext(a, b, orderby, k, namespace, c) ==
    IF c # 0 THEN [throws |-> FALSE, result |-> c]
    ELSE Compare(a, b, orderby, k + 1, namespace)

\* the comparator: [throws, result] for the pair (a, b), from orderer k on
Compare(a, b, orderby, k, namespace) ==
    IF k > Len(orderby) THEN [throws |-> FALSE, result |-> 0]
    ELSE IF orderby[k].expr.type # "column_ref"
    THEN [throws |-> TRUE, result |-> 0]
    ELSE CompareNext(a, b, orderby, k, namespace,
                     CompareColumn(Get(a, Field(orderby[k].expr, namespace)),
                                   Get(b, Field(orderby[k].expr, namespace)),
                                   orderby[k].type = "ASC"))

\* Array.prototype.sort throws iff it calls the comparator on a pair that
\* throws; a sort orders two rows that tie on the keys before the failing one
\* only by comparing them, and it compares nothing in a list shorter than 2
SortThrows(rows, orderby, namespace) ==
    \E i, j \in 1..Len(rows) :
        i # j /\ Compare(rows[i], rows[j], orderby, 1, namespace).throws

\* the position after which a stable sort places row: that of the last
\* placed row that is not above it
PlaceOf(sorted, row, orderby, namespace) ==
    Cardinality({p \in 1..Len(sorted) :
                    \E q \in p..Len(sorted) :
                        Compare(sorted[q], row, orderby, 1, namespace).result <= 0})

InsertAt(sorted, at, row) ==
    SubSeq(sorted, 1, at) \o <<row>> \o SubSeq(sorted, at + 1, Len(sorted))

RECURSIVE SortFrom(_, _, _, _, _)
SortFrom(rows, i, sorted, orderby, namespace) ==
    IF i > Len(rows) THEN sorted
    ELSE SortFrom(rows, i + 1,
                  InsertAt(sorted, PlaceOf(sorted, rows[i], orderby, namespace), rows[i]),
                  orderby, namespace)

\* resultRows.sort(comparator), when the comparator does not throw
Sort(rows, orderby, namespace) == SortFrom(rows, 1, <<>>, orderby, namespace)

(* -------------------------------- LIMIT -------------------------------- *)
Min(a, b) == IF a < b THEN a ELSE b

\* result.slice(offs, offs + len) for offs, len >= 0
Slice(result, offs, len) == SubSeq(result, offs + 1, Min(offs + len, Len(result)))

(* -------------------------- Select Orchestrator ------------------------ *)
\* the row kept under its bare keys
NsRowBare(table, row) == row

\* a row of table under the keys table + "." + key
NsRow(table, row) ==
    [k \in {table \o "." \o key : key \in DOMAIN row} |->
        row[CHOOSE key \in DOMAIN row : table \o "." \o key = k]]

\* tableset.map(...): one {from, name, rows} per loaded snapshot
Tables(sqlobj, tableset, namespace) ==
    [n \in 1..Len(tableset) |->
        [from |-> sqlobj.from[n],
         name |-> sqlobj.from[n].table,
         rows |-> IF namespace
                  THEN [i \in 1..Len(tableset[n]) |-> NsRow(sqlobj.from[n].table, tableset[n][i])]
                  ELSE tableset[n]]]

\* one round of the loop taking the join kind and ON of the entry of
\* tables[0] rather than of tables[1]
JoinStepOwnEntry(tables, namespace) ==
    <<[tables[1] EXCEPT !.rows =
          IF tables[1].from.join \in {"INNER JOIN", "LEFT JOIN", "RIGHT JOIN", "FULL JOIN"}
          THEN join(tables[1].rows, tables[2].rows, tables[1].from.on,
                    tables[1].from.join \in {"LEFT JOIN", "FULL JOIN"},
                    tables[1].from.join \in {"RIGHT JOIN", "FULL JOIN"},
                    namespace)
          ELSE tables[1].rows]>>
    \o SubSeq(tables, 3, Len(tables))

\* one round of the while loop: tables[1] merged into tables[0] by the
\* switch on tables[1].from.join, and tables[1] spliced out
JoinStep(tables, namespace) ==
    <<[tables[1] EXCEPT !.rows =
          IF tables[2].from.join \in {"INNER JOIN", "LEFT JOIN", "RIGHT JOIN", "FULL JOIN"}
          THEN join(tables[1].rows, tables[2].rows, tables[2].from.on,
                    tables[2].from.join \in {"LEFT JOIN", "FULL JOIN"},
                    tables[2].from.join \in {"RIGHT JOIN", "FULL JOIN"},
                    namespace)
          ELSE tables[1].rows]>>
    \o SubSeq(tables, 3, Len(tables))

RECURSIVE Fold(_, _)
\* while (tables.length > 1) ...
Fold(tables, namespace) ==
    IF Len(tables) > 1 THEN Fold(JoinStep(tables, namespace), namespace) ELSE tables

RECURSIVE Filter(_, _, _, _)
\* rows.filter(row => this.doWhere(sqlobj.where, row, namespace))
Filter(rows, where, namespace, i) ==
    IF i > Len(rows) THEN <<>>
    ELSE (IF Truthy(doWhere(where, rows[i], namespace)) THEN <<rows[i]>> ELSE <<>>)
         \o Filter(rows, where, namespace, i + 1)

OrderByUnsupported == "ORDER BY only supported for columns, aggregates are not supported"
InvalidLimit == "Invalid LIMIT expression: Use LIMIT [offset,] number"

\* what the doSelect callback leaves: what it threw ("" for nothing) and the
\* row sets it went through
RunOf(throws, namespace, tables, joined, resultRows, result) ==
    [throws |-> throws, namespace |-> namespace,
     tables |-> [n \in 1..Len(tables) |-> tables[n].rows],
     joined |-> joined, resultRows |-> resultRows, result |-> result]

\* if (sqlobj.limit) ... result.slice(offs, offs + len); resolve(result)
SelectLimit(sqlobj, namespace, tables, joined, resultRows, result) ==
    IF ~Has(sqlobj.limit)
    THEN RunOf("", namespace, tables, joined, resultRows, result)
    ELSE IF Len(ListOf(sqlobj.limit)) # 2
    THEN RunOf(InvalidLimit, namespace, tables, joined, resultRows, result)
    ELSE RunOf("", namespace, tables, joined, resultRows,
               Slice(result, ListOf(sqlobj.limit)[1].value.n, ListOf(sqlobj.limit)[2].value.n))

\* resultRows.map(row => this.chooseFields(sqlobj, result, row, namespace))
SelectProject(sqlobj, namespace, tables, joined, resultRows) ==
    SelectLimit(sqlobj, namespace, tables, joined, resultRows,
                Project(sqlobj, <<>>, resultRows, 1, namespace))

\* if (sqlobj.orderby) resultRows.sort(...)
SelectOrder(sqlobj, namespace, tables, joined, resultRows) ==
    IF ~Has(sqlobj.orderby)
    THEN SelectProject(sqlobj, namespace, tables, joined, resultRows)
    ELSE IF SortThrows(resultRows, ListOf(sqlobj.orderby), namespace)
    THEN RunOf(OrderByUnsupported, namespace, tables, joined, resultRows, <<>>)
    ELSE SelectProject(sqlobj, namespace, tables, joined,
                       Sort(resultRows, ListOf(sqlobj.orderby), namespace))

\* tables[0].rows.filter(...)
SelectWhere(sqlobj, namespace, tables, joined) ==
    SelectOrder(sqlobj, namespace, tables, joined,
                Filter(joined, sqlobj.where, namespace, 1))

\* while (tables.length > 1) ...
SelectJoin(sqlobj, namespace, tables) ==
    SelectWhere(sqlobj, namespace, tables, Fold(tables, namespace)[1].rows)

\* the callback of Promise.all(promises).then in doSelect, run on the loaded
\* snapshots, with namespace = sqlobj.from.length > 1
SelectRun(sqlobj, tableset) ==
    SelectJoin(sqlobj, Len(sqlobj.from) > 1,
               Tables(sqlobj, tableset, Len(sqlobj.from) > 1))

(* ----------------------------- Type Mapper ----------------------------- *)
\* the column types with XML left out of the throwing case
UnsupportedNoXml == {"INTERVAL", "ARRAY", "MULTISET"}

\* the column types doCreate throws on
Unsupported == {"INTERVAL", "ARRAY", "MULTISET", "XML"}

\* the switch of doCreate on T = col.type.type.toUpperCase(), filling the
\* column definition base = {name, index}
MapType(T, args, base) ==
    CASE T \in {"CHAR", "CHARACTER"} ->
             [base EXCEPT !.type = "string", !.pad = " ", !.length = args[1]]
      [] T = "VARCHAR" -> [base EXCEPT !.type = "string", !.length = args[1]]
      [] T \in {"BINARY", "VARBINARY"} -> [base EXCEPT !.type = "binary", !.length = args[1]]
      [] T = "BOOLEAN" -> [base EXCEPT !.type = "boolean"]
      [] T \in {"INTEGER", "SMALLINT", "BIGINT"} -> [base EXCEPT !.type = "integer"]
      [] T \in {"DECIMAL", "NUMERIC", "FLOAT", "REAL", "DOUBLE"} -> [base EXCEPT !.type = "float"]
      [] T \in {"DATE", "TIME", "TIMESTAMP"} -> [base EXCEPT !.type = "date"]
      [] T = "TEXT" -> [base EXCEPT !.type = "string"]
      [] OTHER -> base

\* one round of the for loop of doCreate for the column at index n: the
\* column definition, or the string thrown; an absent type or pad is "", an
\* absent length -1
MapColumn(col, n) ==
    IF ToUpperCase(col.type.type) \in Unsupported
    THEN [throws |-> ToUpperCase(col.type.type) \o " not yet supported",
          column |-> [name |-> col.name, index |-> n, type |-> "", pad |-> "", length |-> -1]]
    ELSE [throws |-> "",
          column |-> MapType(ToUpperCase(col.type.type), col.type.args,
                             [name |-> col.name, index |-> n, type |-> "", pad |-> "",
                              length |-> -1])]

\* after the column at position k: stop on a throw, or push and go on
RECURSIVE MapColumns(_, _, _)
MapNext(cols, k, columns, m) ==
    IF m.throws # "" THEN [throws |-> m.throws, columns |-> columns]
    ELSE MapColumns(cols, k + 1, Append(columns, m.column))

\* the for loop of doCreate: the definitions pushed, or what the loop throws
MapColumns(cols, k, columns) ==
    IF k > Len(cols) THEN [throws |-> "", columns |-> columns]
    ELSE MapNext(cols, k, columns, MapColumn(cols[k], k - 1))

(* --------------------------- Mutation Executor ------------------------- *)
RECURSIVE UpdateObj(_, _, _)
\* for (let item of sqlobj.set) updateObj[item.column] = item.value.value
UpdateObj(set, k, updateObj) ==
    IF k > Len(set) THEN updateObj
    ELSE UpdateObj(set, k + 1, Put(updateObj, set[k].column, set[k].value.value))

\* this.doWhere(sqlobj.where, table[row_id]) === true
Matches(where, row) == StrictEq(doWhere(where, row, FALSE), Bool(TRUE))

RECURSIVE MatchingIds(_, _, _)
\* the row ids the for-in loop of doUpdate and doDelete keeps, in its order
MatchingIds(where, table, i) ==
    IF i > Len(table) THEN <<>>
    ELSE (IF Matches(where, table[i]) THEN <<i>> ELSE <<>>)
         \o MatchingIds(where, table, i + 1)

RECURSIVE InsertData(_, _, _, _)
\* data[sqlobj.columns[n]] = sqlobj.values[i].value[n].value, n = 0 ..
InsertData(columns, tuple, n, data) ==
    IF n > Len(columns) THEN data
    ELSE InsertData(columns, tuple, n + 1, Put(data, columns[n], tuple.value[n].value))

\* sqlobj.values[i].value[n] is undefined for a column: reading .value throws
TupleThrows(columns, tuple) == Len(tuple.value) < Len(columns)

RECURSIVE InsertLoop(_, _, _)
\* the for loop of doInsert: the rows handed to store before it ends or throws
InsertLoop(sqlobj, i, datas) ==
    IF i > Len(sqlobj.values) THEN [throws |-> "", datas |-> datas]
    ELSE IF TupleThrows(sqlobj.columns, sqlobj.values[i])
    THEN [throws |-> "TypeError", datas |-> datas]
    ELSE InsertLoop(sqlobj, i + 1,
                    Append(datas, InsertData(sqlobj.columns, sqlobj.values[i], 1, EmptyRow)))

(* ------------------------------- inputs -------------------------------- *)
\* most columns of one CREATE TABLE
MaxColumns == 2

\* the numbers a stored column holds
Vals == {0, 1}

\* the errors a backend call rejects with
Errors == {"e1", "e2"}

\* the indices the backend assigns to inserted rows
NewIndices == {7, 8}

\* store(table, null, ...): the index argument of an insert
NullIndex == 0

SeqsUpTo(S, n) == UNION {[1..k -> S] : k \in 0..n}

\* the rows of the backend's tables
RowsOf(table) ==
    IF table = "t1" THEN {[g |-> Num(a), v |-> Num(b)] : a, b \in Vals}
    ELSE {[g |-> Num(a)] : a \in Vals}

\* what load(table) can resolve with
Snapshots(table) == SeqsUpTo(RowsOf(table), MaxRows)

g1 == Col("null", "g")
v1 == Col("null", "v")

\* WHERE clauses over one table
Wheres ==
    { Null,
      Bin("=", g1, Lit(1)),
      Bin(">", v1, Lit(0)),
      Bin("AND", Bin("=", g1, Lit(1)), Bin(">", v1, Lit(0))),
      Bin("OR", Bin("=", g1, Lit(1)), Bin("=", v1, Lit(1))),
      Bin("AND", g1, v1) }

\* ON clauses of t1 JOIN t2
Ons ==
    { Null,
      Bin("=", Col("t1", "g"), Col("t2", "g")),
      Bin(">", Col("t1", "v"), Col("t2", "g")),
      Bin("AND", Bin("=", Col("t1", "g"), Col("t2", "g")), Bin("=", Col("t1", "v"), Lit(1))) }

JoinKinds == {"INNER JOIN", "LEFT JOIN", "RIGHT JOIN", "FULL JOIN", "CROSS JOIN"}

From(table, kind, on) == [table |-> table, join |-> kind, on |-> on]
As(expr, as) == [expr |-> expr, as |-> as]
By(expr, dir) == [expr |-> expr, type |-> dir]

Select(from, columns, where, groupBy, orderBy, limit) ==
    [type |-> "select", from |-> from, columns |-> columns, where |-> where,
     groupby |-> groupBy, orderby |-> orderBy, limit |-> limit]

FromT1 == <<From("t1", "", Null)>>

JoinSelects ==
    {Select(<<From("t1", "", Null), From("t2", k, on)>>, Star, Null, Absent, Absent, Absent) :
        k \in JoinKinds, on \in Ons}
    \cup
    { Select(<<From("t1", "", Null), From("t1", "LEFT JOIN", Bin("=", Col("t1", "g"), Lit(1)))>>,
             Star, Null, Absent, Absent, Absent),
      Select(<<From("t1", "", Null), From("t2", "LEFT JOIN", Bin("=", Col("t1", "g"), Col("t2", "g")))>>,
             <<As(Col("t1", "v"), ""), As(Col("t2", "g"), "h")>>,
             Bin("=", Col("t1", "v"), Lit(1)), Absent,
             Present(<<By(Col("t1", "g"), "DESC")>>), Absent),
      Select(<<From("t1", "", Null), From("t2", "INNER JOIN", Bin("=", Col("t1", "g"), Col("t2", "g")))>>,
             <<As(g1, ""), As(Aggr("SUM", "v"), "s")>>, Null, Present(<<g1>>), Absent, Absent),
      Select(<<From("t1", "", Null), From("t2", "INNER JOIN", Null)>>, Star,
             Bin("AND", Bin("=", Col("t1", "g"), Lit(1)), Bin("=", Col("t2", "g"), Lit(1))),
             Absent, Absent, Absent) }

\* a select over three tables, the join kinds differing from entry to entry
ThreeTableSelects ==
    { Select(<<From("t1", "", Null),
               From("t2", "INNER JOIN", Bin("=", Col("t1", "g"), Col("t2", "g"))),
               From("t3", "RIGHT JOIN", Bin("=", Col("t2", "g"), Col("t3", "g")))>>,
             Star, Null, Absent, Absent, Absent) }

WhereSelects ==
    {Select(FromT1, c, w, Absent, Absent, Absent) :
        c \in {Star, <<As(g1, "")>>, <<As(v1, "x"), As(Col("null", "z"), "")>>},
        w \in Wheres}

AggregateSelects ==
    {Select(FromT1, c[1], Null, c[2], Absent, Absent) :
        c \in { <<<<As(g1, ""), As(Aggr("SUM", "v"), "s")>>, Present(<<g1>>)>>,
                <<<<As(Aggr("sum", "v"), ""), As(g1, ""), As(Aggr("COUNT", "v"), "")>>, Present(<<g1>>)>>,
                <<<<As(Aggr("SUM", "v"), "s")>>, Present(<<g1>>)>>,
                <<<<As(g1, "k"), As(Aggr("count", "v"), "c")>>, Present(<<g1>>)>>,
                <<<<As(g1, ""), As(v1, ""), As(Aggr("COUNT", "v"), "c")>>, Present(<<g1, v1>>)>>,
                <<<<As(g1, ""), As(Aggr("max", "v"), "")>>, Present(<<g1>>)>>,
                <<<<As(Aggr("SUM", "v"), ""), As(Aggr("COUNT", "g"), "c")>>, Absent>> }}
    \cup
    { Select(FromT1, <<As(g1, ""), As(Aggr("COUNT", "v"), "c")>>, Bin(">", v1, Lit(0)),
             Present(<<g1>>), Absent, Absent),
      Select(FromT1, <<As(Aggr("COUNT", "v"), "c")>>, Bin(">", v1, Lit(0)),
             Absent, Absent, Absent) }

OrderBys ==
    { Present(<<By(g1, "ASC")>>),
      Present(<<By(g1, "DESC"), By(v1, "ASC")>>),
      Present(<<By(Aggr("SUM", "v"), "ASC")>>),
      Present(<<By(g1, "ASC"), By(Aggr("SUM", "v"), "DESC")>>),
      Present(<<>>) }

Limits ==
    { Present(<<Lit(0), Lit(1)>>),
      Present(<<Lit(1), Lit(2)>>),
      Present(<<Lit(1)>>),
      Present(<<Lit(0), Lit(1), Lit(2)>>) }

OrderSelects ==
    {Select(FromT1, Star, w, Absent, o, Absent) :
        o \in OrderBys, w \in {Null, Bin("=", g1, Lit(1))}}

LimitSelects ==
    {Select(FromT1, Star, Null, Absent, o, l) :
        o \in {Absent, Present(<<By(v1, "DESC")>>), Present(<<By(Aggr("SUM", "v"), "ASC")>>)},
        l \in Limits}

Selects == JoinSelects \cup ThreeTableSelects \cup WhereSelects \cup AggregateSelects \cup OrderSelects \cup LimitSelects

Updates ==
    {[type |-> "update", table |-> "t1", where |-> w,
      set |-> <<[column |-> "v", value |-> Lit(5)]>>] : w \in Wheres}

Deletes == {[type |-> "delete", from |-> FromT1, where |-> w] : w \in Wheres}

\* VALUES tuples for the columns (g, v); the last one lacks a value
Tuples ==
    { [type |-> "expr_list", value |-> <<Lit(0), Lit(1)>>],
      [type |-> "expr_list", value |-> <<Lit(1), Lit(1)>>],
      [type |-> "expr_list", value |-> <<Lit(1)>>] }

Inserts ==
    {[type |-> "insert", table |-> "t1", columns |-> <<"g", "v">>, values |-> vs] :
        vs \in SeqsUpTo(Tuples, MaxTuples) \ {<<>>}}

ColumnTypes ==
    { [type |-> "INTEGER", args |-> <<>>],
      [type |-> "varchar", args |-> <<8>>],
      [type |-> "CHAR", args |-> <<4>>],
      [type |-> "xml", args |-> <<>>],
      [type |-> "ARRAY", args |-> <<>>],
      [type |-> "JSON", args |-> <<>>] }

Creates ==
    {[type |-> "create_table", name |-> [table |-> "t3"],
      columns |-> [k \in DOMAIN ts |-> [name |-> IF k = 1 THEN "a" ELSE "b", type |-> ts[k]]]] :
        ts \in SeqsUpTo(ColumnTypes, MaxColumns) \ {<<>>}}

Statements ==
    Selects \cup Updates \cup Deletes \cup Inserts \cup Creates \cup {[type |-> "replace"]}

\* the SQL texts handed to runSQL, each known by what parse() makes of it
\* and by the table name the DROP pattern captures in it ("" for no match)
Sqls ==
    {[parse |-> "ok", obj |-> st, err |-> "", dropTable |-> ""] : st \in Statements}
    \cup
    {[parse |-> "throws", obj |-> Null, err |-> "SyntaxError", dropTable |-> d] :
        d \in {"t1", ""}}

(* -------------------------------- state -------------------------------- *)
VARIABLES
    sql,      \* the text handed to runSQL
    pc,       \* the callback the statement waits for
    readyP,   \* the promise ready() returned
    calls,    \* the backend calls issued, in order, each with its promise
    all,      \* the Promise.all in use: the calls it waits for and its promise
    inner,    \* the promise of doSelect, doUpdate, ..., doDrop
    outer,    \* the promise runSQL returned
    rows,     \* the row ids doUpdate and doDelete collected
    run,      \* the row sets of the doSelect callback
    failed    \* the errors the backend rejected with, in order

vars == <<sql, pc, readyP, calls, all, inner, outer, rows, run, failed>>

NoPromise == [state |-> "none", value |-> ""]
PendingP == [state |-> "pending", value |-> ""]
Resolved(v) == [state |-> "resolved", value |-> v]
Rejected(e) == [state |-> "rejected", value |-> e]

Call(op, table, index, arg) ==
    [op |-> op, table |-> table, index |-> index, arg |-> arg, promise |-> PendingP]

\* Promise.all over the calls at the positions members: resolved at once
\* when there are none
PromiseAll(members) ==
    [members |-> members, promise |-> IF members = <<>> THEN Resolved(<<>>) ELSE PendingP]

NoRun ==
    [throws |-> "", namespace |-> FALSE, tables |-> <<>>, joined |-> <<>>,
     resultRows |-> <<>>, result |-> <<>>]

\* parse(sql), or on its exception what the ExtendedSyntax patterns make of
\* the text: a drop_table statement, or false
SqlObj(text) ==
    IF text.parse = "ok" THEN text.obj
    ELSE IF text.dropTable # "" THEN [type |-> "drop_table", table |-> text.dropTable]
    ELSE [type |-> "<false>"]

Init ==
    /\ sql = [parse |-> "", obj |-> Null, err |-> "", dropTable |-> ""]
    /\ pc = "idle"
    /\ readyP = NoPromise
    /\ calls = <<>>
    /\ all = PromiseAll(<<>>)
    /\ inner = NoPromise
    /\ outer = NoPromise
    /\ rows = <<>>
    /\ run = NoRun
    /\ failed = <<>>

(* ------------------------------- runSQL -------------------------------- *)
\* execute(sql) / query(sql) / runSQL(sql): the executor calls this.ready()
RunSQL(text) ==
    /\ pc = "idle"
    /\ sql' = text
    /\ readyP' = PendingP
    /\ outer' = PendingP
    /\ pc' = "ready"
    /\ UNCHANGED <<calls, all, inner, rows, run, failed>>

\* the backend settles the promise of ready()
ReadySettles ==
    /\ readyP.state = "pending"
    /\ \/ readyP' = Resolved(TRUE) /\ UNCHANGED failed
       \/ \E e \in Errors :
              readyP' = Rejected(e) /\ failed' = Append(failed, e)
    /\ UNCHANGED <<sql, pc, calls, all, inner, outer, rows, run>>

\* the loads doSelect pushes, one per FROM entry
SelectLoads(sqlobj) ==
    [n \in 1..Len(sqlobj.from) |-> Call("load", sqlobj.from[n].table, NullIndex, EmptyRow)]

\* the dispatch run without waiting for ready()
ReadyGuardNoWait == pc = "ready"

\* when the ready() callback may run
ReadyGuard == pc = "ready" /\ readyP.state = "resolved"

\* the callback of this.ready().then in runSQL: parse, then the switch on
\* sqlobj.type, with the synchronous part of the executor it calls
OnReady ==
    /\ ReadyGuard
    /\ \E sqlobj \in {SqlObj(sql)} :
       \/ /\ sqlobj.type = "<false>"
          /\ outer' = Rejected(sql.err)
          /\ pc' = "done"
          /\ UNCHANGED <<calls, all, inner>>
       \/ /\ sqlobj.type = "select"
          /\ calls' = SelectLoads(sqlobj)
          /\ all' = PromiseAll([n \in 1..Len(sqlobj.from) |-> n])
          /\ inner' = PendingP
          /\ pc' = "select"
          /\ UNCHANGED outer
       \/ /\ sqlobj.type = "update"
          /\ calls' = <<Call("load", sqlobj.table, NullIndex, EmptyRow)>>
          /\ inner' = PendingP
          /\ pc' = "update"
          /\ UNCHANGED <<all, outer>>
       \/ /\ sqlobj.type = "delete"
          /\ calls' = <<Call("load", sqlobj.from[1].table, NullIndex, EmptyRow)>>
          /\ inner' = PendingP
          /\ pc' = "delete"
          /\ UNCHANGED <<all, outer>>
       \/ /\ sqlobj.type = "insert"
          /\ \E loop \in {InsertLoop(sqlobj, 1, <<>>)} :
             /\ calls' = [i \in 1..Len(loop.datas) |->
                             Call("store", sqlobj.table, NullIndex, loop.datas[i])]
             /\ IF loop.throws # ""
                THEN inner' = Rejected(loop.throws) /\ pc' = "settled" /\ UNCHANGED all
                ELSE /\ inner' = PendingP
                     /\ all' = PromiseAll([i \in 1..Len(loop.datas) |-> i])
                     /\ pc' = "insert"
          /\ UNCHANGED outer
       \/ /\ sqlobj.type = "create_table"
          /\ \E loop \in {MapColumns(sqlobj.columns, 1, <<>>)} :
             IF loop.throws # ""
             THEN inner' = Rejected(loop.throws) /\ pc' = "settled" /\ UNCHANGED calls
             ELSE /\ inner' = PendingP
                  /\ calls' = <<Call("create", sqlobj.name.table, NullIndex, loop.columns)>>
                  /\ pc' = "create"
          /\ UNCHANGED <<all, outer>>
       \/ /\ sqlobj.type = "drop_table"
          /\ calls' = <<Call("drop", sqlobj.table, NullIndex, EmptyRow)>>
          /\ inner' = PendingP
          /\ pc' = "drop"
          /\ UNCHANGED <<all, outer>>
       \/ /\ sqlobj.type \notin {"<false>", "select", "update", "delete", "insert",
                                 "create_table", "drop_table"}
          /\ outer' = Rejected("Invalid SQL syntax: " \o sqlobj.type)
          /\ pc' = "done"
          /\ UNCHANGED <<calls, all, inner>>
    /\ UNCHANGED <<sql, readyP, rows, run, failed>>

(* ------------------------------- backend ------------------------------- *)
\* what the promise of a backend call can resolve with
Resolutions(call) ==
    CASE call.op = "load" -> Snapshots(call.table)
      [] call.op = "store" -> IF call.index = NullIndex THEN NewIndices ELSE {call.index}
      [] call.op = "remove" -> {call.index}
      [] OTHER -> BOOLEAN

\* Promise.all resolving with the values in the reverse of the member order
AllReversedAfter(a, cs, i, p) ==
    IF a.promise.state # "pending" \/ \A m \in DOMAIN a.members : a.members[m] # i THEN a
    ELSE IF p.state = "rejected" THEN [a EXCEPT !.promise = p]
    ELSE IF \A m \in DOMAIN a.members :
                a.members[m] # i => cs[a.members[m]].promise.state = "resolved"
    THEN [a EXCEPT !.promise =
             Resolved([m \in DOMAIN a.members |->
                          IF a.members[Len(a.members) + 1 - m] = i THEN p.value
                          ELSE cs[a.members[Len(a.members) + 1 - m]].promise.value])]
    ELSE a

\* Promise.all after the call at position i settled with promise p: it
\* rejects with the first rejection, and resolves with the values in the
\* order of its members once the last of them resolved
AllAfter(a, cs, i, p) ==
    IF a.promise.state # "pending" \/ \A m \in DOMAIN a.members : a.members[m] # i THEN a
    ELSE IF p.state = "rejected" THEN [a EXCEPT !.promise = p]
    ELSE IF \A m \in DOMAIN a.members :
                a.members[m] # i => cs[a.members[m]].promise.state = "resolved"
    THEN [a EXCEPT !.promise =
             Resolved([m \in DOMAIN a.members |->
                          IF a.members[m] = i THEN p.value
                          ELSE cs[a.members[m]].promise.value])]
    ELSE a

\* the promise of the call at position i settles as p
Settle(i, p) ==
    /\ calls' = [calls EXCEPT ![i].promise = p]
    /\ all' = AllAfter(all, calls, i, p)
    \* doDrop returns the promise of drop() itself
    /\ inner' = IF calls[i].op = "drop" THEN p ELSE inner
    /\ failed' = IF p.state = "rejected" THEN Append(failed, p.value) ELSE failed
    /\ UNCHANGED <<sql, pc, readyP, outer, rows, run>>

\* the backend resolves the call at position i
CallResolves(i) ==
    /\ i \in DOMAIN calls
    /\ calls[i].promise.state = "pending"
    /\ \E v \in Resolutions(calls[i]) : Settle(i, Resolved(v))

\* the backend rejects the call at position i
CallRejects(i) ==
    /\ i \in DOMAIN calls
    /\ calls[i].promise.state = "pending"
    /\ \E e \in Errors : Settle(i, Rejected(e))

(* ------------------------------ callbacks ------------------------------ *)
\* when the callbacks below may run
SelectLoadedGuard == pc = "select" /\ all.promise.state = "resolved"
FirstCallGuard(at) == pc = at /\ calls[1].promise.state = "resolved"
AllSettledGuard ==
    pc \in {"update_stores", "insert", "delete_removes"} /\ all.promise.state # "pending"
ExecutorSettledGuard ==
    pc \in {"settled", "drop"} /\ inner.state \in {"resolved", "rejected"}

\* the callback of Promise.all(promises).then in doSelect; what it throws
\* rejects only the promise of that then(), which nothing reads
OnSelectLoaded ==
    /\ SelectLoadedGuard
    /\ \E r \in {SelectRun(SqlObj(sql), all.promise.value)} :
       /\ run' = r
       /\ IF r.throws # ""
          THEN pc' = "thrown" /\ UNCHANGED inner
          ELSE pc' = "settled" /\ inner' = Resolved(r.result)
    /\ UNCHANGED <<sql, readyP, calls, all, outer, rows, failed>>

\* the callback of this.load(sqlobj.table).then in doUpdate
OnUpdateLoaded ==
    /\ FirstCallGuard("update")
    /\ \E sqlobj \in {SqlObj(sql)} :
       \E updateObj \in {UpdateObj(sqlobj.set, 1, EmptyRow)} :
       \E ids \in {MatchingIds(sqlobj.where, calls[1].promise.value, 1)} :
          /\ calls' = calls \o [k \in 1..Len(ids) |->
                                   Call("store", sqlobj.table, ids[k], updateObj)]
          /\ rows' = ids
          /\ all' = PromiseAll([k \in 1..Len(ids) |-> Len(calls) + k])
    /\ pc' = "update_stores"
    /\ UNCHANGED <<sql, readyP, inner, outer, run, failed>>

\* the callback of this.load(sqlobj.from[0].table).then in doDelete
OnDeleteLoaded ==
    /\ FirstCallGuard("delete")
    /\ \E sqlobj \in {SqlObj(sql)} :
       \E ids \in {MatchingIds(sqlobj.where, calls[1].promise.value, 1)} :
          /\ calls' = calls \o [k \in 1..Len(ids) |->
                                   Call("remove", sqlobj.from[1].table, ids[k], EmptyRow)]
          /\ rows' = ids
          /\ all' = PromiseAll([k \in 1..Len(ids) |-> Len(calls) + k])
    /\ pc' = "delete_removes"
    /\ UNCHANGED <<sql, readyP, inner, outer, run, failed>>

\* the then and catch callbacks of Promise.all in doUpdate, doInsert and
\* doDelete: resolve(rows) / resolve(values) / resolve(rowIds), or reject(reason)
OnAllSettled ==
    /\ AllSettledGuard
    /\ inner' = IF all.promise.state = "rejected" THEN all.promise
                ELSE IF pc = "insert" THEN all.promise
                ELSE Resolved(rows)
    /\ pc' = "settled"
    /\ UNCHANGED <<sql, readyP, calls, all, outer, rows, run, failed>>

\* the callback of this.create(...).then in doCreate: resolve(success)
OnCreated ==
    /\ FirstCallGuard("create")
    /\ inner' = calls[1].promise
    /\ pc' = "settled"
    /\ UNCHANGED <<sql, readyP, calls, all, outer, rows, run, failed>>

\* the then and catch callbacks runSQL chains on the executor's promise:
\* resolve(rows) / resolve(ids) / resolve(success), or reject(err)
OnExecutorSettled ==
    /\ ExecutorSettledGuard
    /\ outer' = inner
    /\ pc' = "done"
    /\ UNCHANGED <<sql, readyP, calls, all, inner, rows, run, failed>>

Next ==
    \/ \E text \in Sqls : RunSQL(text)
    \/ ReadySettles
    \/ OnReady
    \/ \E i \in 1..(MaxRows + MaxTuples + 1) : CallResolves(i)
    \/ \E i \in 1..(MaxRows + MaxTuples + 1) : CallRejects(i)
    \/ OnSelectLoaded
    \/ OnUpdateLoaded
    \/ OnDeleteLoaded
    \/ OnAllSettled
    \/ OnCreated
    \/ OnExecutorSettled

Spec == Init /\ [][Next]_vars

(* ======================================================================= *)
(*                               properties                                *)
(* ======================================================================= *)
\* the statement being run
Stmt == SqlObj(sql)

\* execute was called and nothing is left to happen: every backend promise
\* has settled and every callback that could run has run
Quiescent ==
    /\ pc # "idle"
    /\ readyP.state # "pending"
    /\ \A i \in DOMAIN calls : calls[i].promise.state # "pending"
    /\ ~ReadyGuard
    /\ ~SelectLoadedGuard
    /\ \A at \in {"update", "delete", "create"} : ~FirstCallGuard(at)
    /\ ~AllSettledGuard
    /\ ~ExecutorSettledGuard

\* the first error a backend call of this statement rejected with
FirstError == failed[1]

(* C1: whenever a backend call made for a statement (ready, load, store,
   remove, create, drop) rejects with e, the promise of execute is rejected
   with that same e; read on a finished run, with e the first rejection. *)
C1_BackendErrorPropagates ==
    (Quiescent /\ failed # <<>>) =>
        (outer.state = "rejected" /\ outer.value = FirstError)

(* C2: once every backend call has settled, the promise of execute has
   settled too, resolved or rejected: no statement stays pending. *)
C2_ExecuteSettles ==
    Quiescent => outer.state \in {"resolved", "rejected"}

\* some ORDER BY key of the select is not a plain column reference
HasNonColumnKey(sqlobj) ==
    /\ Has(sqlobj.orderby)
    /\ \E k \in 1..Len(ListOf(sqlobj.orderby)) :
           ListOf(sqlobj.orderby)[k].expr.type # "column_ref"

(* C3: a SELECT with an ORDER BY key that is not a plain column reference
   is rejected with the OrderByUnsupported error, whatever the number of
   filtered rows; read on a finished run whose backend calls all resolved. *)
C3_OrderByRejects ==
    (Quiescent /\ failed = <<>> /\ Stmt.type = "select" /\ HasNonColumnKey(Stmt)) =>
        (outer.state = "rejected" /\ outer.value = OrderByUnsupported)

\* the LIMIT clause is present and is not a two-element list
HasBadLimit(sqlobj) == Has(sqlobj.limit) /\ Len(ListOf(sqlobj.limit)) # 2

(* C4: a SELECT whose LIMIT is present but not a two-element list is
   rejected with the InvalidLimit error; read on a finished run whose
   backend calls all resolved and whose ORDER BY keys are all columns. *)
C4_InvalidLimitRejects ==
    (Quiescent /\ failed = <<>> /\ Stmt.type = "select" /\ HasBadLimit(Stmt)
       /\ ~HasNonColumnKey(Stmt)) =>
        (outer.state = "rejected" /\ outer.value = InvalidLimit)

\* the position of the first column of a CREATE TABLE whose type, in upper
\* case, is INTERVAL, ARRAY, MULTISET or XML; 0 when there is none
FirstUnsupported(sqlobj) ==
    IF \E k \in 1..Len(sqlobj.columns) :
           ToUpperCase(sqlobj.columns[k].type.type) \in {"INTERVAL", "ARRAY", "MULTISET", "XML"}
    THEN CHOOSE k \in 1..Len(sqlobj.columns) :
           /\ ToUpperCase(sqlobj.columns[k].type.type) \in {"INTERVAL", "ARRAY", "MULTISET", "XML"}
           /\ \A j \in 1..(k - 1) :
                  ToUpperCase(sqlobj.columns[j].type.type) \notin {"INTERVAL", "ARRAY", "MULTISET", "XML"}
    ELSE 0

\* the UnsupportedType error of the column at position k
UnsupportedType(sqlobj, k) == ToUpperCase(sqlobj.columns[k].type.type) \o " not yet supported"

(* C5: a CREATE TABLE with a column, at any position, of type INTERVAL,
   ARRAY, MULTISET or XML in any letter case never reaches the backend's
   create and never resolves; once the statement has been dispatched its
   executor is rejected with the UnsupportedType error of the first such
   column, and that is the error execute is rejected with when the run ends. *)
C5_UnsupportedTypeAborts ==
    (Stmt.type = "create_table" /\ FirstUnsupported(Stmt) # 0) =>
        /\ \A i \in DOMAIN calls : calls[i].op # "create"
        /\ outer.state # "resolved"
        /\ pc \notin {"idle", "ready"} =>
               inner = Rejected(UnsupportedType(Stmt, FirstUnsupported(Stmt)))
        /\ (Quiescent /\ readyP.state = "resolved") =>
               outer = Rejected(UnsupportedType(Stmt, FirstUnsupported(Stmt)))

\* C5's case: a CREATE TABLE whose second column is the unsupported one, in
\* lower case, has been rejected
C5_Witness ==
    /\ Stmt.type = "create_table"
    /\ FirstUnsupported(Stmt) = 2
    /\ Stmt.columns[2].type.type = "xml"
    /\ outer = Rejected("XML not yet supported")

\* the indices of the snapshot whose rows the WHERE clause accepts, as the
\* filter of a SELECT does: the predicate evaluates to a truthy value
Satisfying(where, table) ==
    {i \in 1..Len(table) : Truthy(doWhere(where, table[i], FALSE))}

\* the backend calls that wrote: every call but the loads
Writes == {i \in DOMAIN calls : calls[i].op # "load"}

\* a set of indices as the list of them in ascending order
RECURSIVE Ascending(_, _, _)
Ascending(S, i, n) ==
    IF i > n THEN <<>>
    ELSE (IF i \in S THEN <<i>> ELSE <<>>) \o Ascending(S, i + 1, n)

(* C6: once an UPDATE (DELETE) has read its snapshot, store(table, index,
   setValues) (remove(table, index)) has been invoked exactly once for each
   index whose row satisfies WHERE and for no other index, nothing else was
   written, and the list execute resolves with is the list of those indices. *)
C6_ExactlyTheMatchingRows ==
    (Stmt.type \in {"update", "delete"}
       /\ pc \in {"update_stores", "delete_removes", "settled", "done"}) =>
        /\ \A i \in Satisfying(Stmt.where, calls[1].promise.value) :
               Cardinality({c \in Writes : calls[c].index = i}) = 1
        /\ \A c \in Writes :
               /\ calls[c].index \in Satisfying(Stmt.where, calls[1].promise.value)
               /\ calls[c].table = "t1"
               /\ calls[c].op = (IF Stmt.type = "update" THEN "store" ELSE "remove")
               /\ Stmt.type = "update" => calls[c].arg = [v |-> Num(5)]
        /\ outer.state = "resolved" =>
               outer.value = Ascending(Satisfying(Stmt.where, calls[1].promise.value), 1,
                                       Len(calls[1].promise.value))

\* the (dest, src) pairs of positions whose merged row, src fields over dest
\* fields, satisfies ON
OnPairs(dest, src, on, namespace) ==
    {p \in (1..Len(dest)) \X (1..Len(src)) :
        Truthy(doWhere(on,
                       [k \in DOMAIN dest[p[1]] \cup DOMAIN src[p[2]] |->
                           IF k \in DOMAIN src[p[2]] THEN src[p[2]][k] ELSE dest[p[1]][k]],
                       namespace))}

\* out is what the claim says join returns: the merged rows of the pairs
\* in P in dest-major order, then (if includeAllDest) the dest rows in no
\* pair, as they are, then (if includeAllSrc) the src rows in no pair
IsJoinOf(out, dest, src, P, includeAllDest, includeAllSrc) ==
    \E restDest \in {IF includeAllDest
                     THEN {i \in 1..Len(dest) : \A q \in P : q[1] # i} ELSE {}} :
    \E restSrc \in {IF includeAllSrc
                    THEN {j \in 1..Len(src) : \A q \in P : q[2] # j} ELSE {}} :
        /\ Len(out) = Cardinality(P) + Cardinality(restDest) + Cardinality(restSrc)
        /\ \A p \in P :
               \E at \in {1 + Cardinality({q \in P : q[1] < p[1] \/ (q[1] = p[1] /\ q[2] < p[2])})} :
                   /\ \A k \in DOMAIN src[p[2]] : Get(out[at], k) = src[p[2]][k]
                   /\ \A k \in DOMAIN dest[p[1]] \ DOMAIN src[p[2]] : Get(out[at], k) = dest[p[1]][k]
                   /\ DOMAIN out[at] = DOMAIN dest[p[1]] \cup DOMAIN src[p[2]]
        /\ \A i \in restDest :
               out[Cardinality(P) + 1 + Cardinality({i2 \in restDest : i2 < i})] = dest[i]
        /\ \A j \in restSrc :
               out[Cardinality(P) + Cardinality(restDest) + 1
                    + Cardinality({j2 \in restSrc : j2 < j})] = src[j]

\* a two-table SELECT with one of the four join kinds has run its join
JoinRan ==
    /\ Stmt.type = "select"
    /\ pc \in {"thrown", "settled", "done"}
    /\ Len(Stmt.from) = 2
    /\ Stmt.from[2].join \in {"INNER JOIN", "LEFT JOIN", "RIGHT JOIN", "FULL JOIN"}

(* C7: the rows a join leaves are exactly one merged row (src fields over
   dest fields) per (dest, src) pair satisfying ON, in dest-major order,
   then, for LEFT and FULL JOIN only, the dest rows that matched no src
   row, unchanged, then, for RIGHT and FULL JOIN only, the src rows that
   matched no dest row; INNER JOIN appends neither. *)
C7_JoinExact ==
    JoinRan =>
        IsJoinOf(run.joined, run.tables[1], run.tables[2],
                 OnPairs(run.tables[1], run.tables[2], Stmt.from[2].on, TRUE),
                 Stmt.from[2].join \in {"LEFT JOIN", "FULL JOIN"},
                 Stmt.from[2].join \in {"RIGHT JOIN", "FULL JOIN"})

\* C7's case: a FULL JOIN of two rows with two rows left a merged row, then
\* a t1 row without t2 keys, then a t2 row without t1 keys
C7_Witness ==
    /\ JoinRan
    /\ Stmt.from[2].join = "FULL JOIN"
    /\ Len(run.tables[1]) = 2 /\ Len(run.tables[2]) = 2
    /\ \E a, b, c \in 1..Len(run.joined) :
           /\ a < b /\ b < c
           /\ DOMAIN run.joined[a] = {"t1.g", "t1.v", "t2.g"}
           /\ DOMAIN run.joined[b] = {"t1.g", "t1.v"}
           /\ DOMAIN run.joined[c] = {"t2.g"}

\* C7's case with a key both sides hold: in a self-join of t1 the merged
\* row of a matching pair holds the src row's values
C7_WitnessOverride ==
    /\ JoinRan
    /\ Stmt.from[2].table = "t1"
    /\ Len(run.tables[1]) = 1 /\ Len(run.tables[2]) = 1
    /\ run.tables[1][1] # run.tables[2][1]
    /\ run.joined = <<run.tables[2][1]>>

\* the values of the GROUP BY columns in a row
GroupKey(row, groupBy) == [k \in 1..Len(groupBy) |-> Get(row, groupBy[k].column)]

\* the positions of the input rows that are the first of their group
FirstOfGroup(input, groupBy) ==
    {i \in 1..Len(input) :
        \A j \in 1..(i - 1) : GroupKey(input[j], groupBy) # GroupKey(input[i], groupBy)}

\* the positions of the input rows in the group of row i
GroupOf(input, groupBy, i) ==
    {j \in 1..Len(input) : GroupKey(input[j], groupBy) = GroupKey(input[i], groupBy)}

RECURSIVE SumOver(_, _, _)
\* the sum of the column over the input rows at the positions in S
SumOver(input, column, S) ==
    IF S = {} THEN 0
    ELSE SumOver(input, column, S \ {CHOOSE j \in S : TRUE})
         + Get(input[CHOOSE j \in S : TRUE], column).n

\* a single-table SELECT with SUM or COUNT columns and a GROUP BY list, and
\* no LIMIT, has produced its result
GroupedRan ==
    /\ Stmt.type = "select"
    /\ pc \in {"settled", "done"}
    /\ Len(Stmt.from) = 1
    /\ Stmt.columns # Star
    /\ \E k \in 1..Len(Stmt.columns) : Stmt.columns[k].expr.type = "aggr_func"
    /\ \A k \in 1..Len(Stmt.columns) :
           Stmt.columns[k].expr.type = "aggr_func" =>
               ToUpperCase(Stmt.columns[k].expr.name) \in {"SUM", "COUNT"}
    /\ Has(Stmt.groupby)
    /\ ~Has(Stmt.limit)

(* C8: the result of a SELECT with aggregates and GROUP BY has exactly one
   row per distinct combination of GROUP BY values among the filtered rows,
   in first-seen order, and in the row of a group SUM(c) is the sum of c
   over the rows of the group and COUNT(c) the number of those rows. *)
C8_OneRowPerGroup ==
    GroupedRan =>
        /\ Len(run.result) = Cardinality(FirstOfGroup(run.resultRows, ListOf(Stmt.groupby)))
        /\ \A i \in FirstOfGroup(run.resultRows, ListOf(Stmt.groupby)) :
           \A k \in 1..Len(Stmt.columns) :
               Stmt.columns[k].expr.type = "aggr_func" =>
                   Get(run.result[Cardinality({f \in FirstOfGroup(run.resultRows, ListOf(Stmt.groupby)) :
                                                  f <= i})],
                       IF Stmt.columns[k].as # "" THEN Stmt.columns[k].as
                       ELSE ToUpperCase(Stmt.columns[k].expr.name) \o "("
                            \o Stmt.columns[k].expr.args.expr.column \o ")")
                   = IF ToUpperCase(Stmt.columns[k].expr.name) = "SUM"
                     THEN Num(SumOver(run.resultRows, Stmt.columns[k].expr.args.expr.column,
                                      GroupOf(run.resultRows, ListOf(Stmt.groupby), i)))
                     ELSE Num(Cardinality(GroupOf(run.resultRows, ListOf(Stmt.groupby), i)))

\* every VALUES tuple of the INSERT holds a value for every declared column
TuplesComplete(sqlobj) ==
    \A i \in 1..Len(sqlobj.values) : Len(sqlobj.values[i].value) >= Len(sqlobj.columns)

\* the row of tuple i: the j-th declared column maps to the j-th value
RowOfTuple(sqlobj, i) ==
    [c \in {sqlobj.columns[j] : j \in 1..Len(sqlobj.columns)} |->
        sqlobj.values[i].value[CHOOSE j \in 1..Len(sqlobj.columns) : sqlobj.columns[j] = c].value]

(* C9: an INSERT with k VALUES tuples, each holding a value for every
   declared column, invokes store(table, null, row_i) exactly k times, once
   per tuple and in tuple order, row_i mapping the j-th column to the j-th
   value of tuple i; when execute resolves, its list has length k and its
   i-th element is the index the i-th store resolved with, in whatever
   order the stores completed; when a store has rejected, execute never
   resolves, and it is rejected once the run has ended. *)
C9_InsertStoresEachTuple ==
    (Stmt.type = "insert" /\ TuplesComplete(Stmt) /\ pc \notin {"idle", "ready"}) =>
        /\ Len(calls) = Len(Stmt.values)
        /\ \A i \in DOMAIN calls :
               /\ calls[i].op = "store"
               /\ calls[i].table = Stmt.table
               /\ calls[i].index = NullIndex
               /\ calls[i].arg = RowOfTuple(Stmt, i)
        /\ outer.state = "resolved" =>
               /\ Len(outer.value) = Len(Stmt.values)
               /\ \A i \in DOMAIN calls :
                      /\ calls[i].promise.state = "resolved"
                      /\ outer.value[i] = calls[i].promise.value
        /\ (\E i \in DOMAIN calls : calls[i].promise.state = "rejected") =>
               /\ outer.state # "resolved"
               /\ Quiescent => outer.state = "rejected" /\ outer.value \in Errors

\* C9's case: two stores resolved with different indices, the second tuple's
\* first (its promise resolved while the first was pending is not kept in
\* the state, so the case is a resolved insert whose indices differ)
C9_Witness ==
    /\ Stmt.type = "insert"
    /\ TuplesComplete(Stmt)
    /\ Len(Stmt.values) = 2
    /\ Stmt.values[1] # Stmt.values[2]
    /\ outer.state = "resolved"
    /\ outer.value = <<8, 7>>

(* C10: load, store, remove, create and drop are invoked only after the
   promise of ready() has resolved: while it is pending, and when it was
   rejected, the backend has been asked for nothing. *)
C10_NothingBeforeReady ==
    calls # <<>> => readyP.state = "resolved"

\* C10's case: ready() has resolved and the statement's calls were issued
C10_Witness ==
    /\ readyP.state = "resolved"
    /\ Len(calls) = 2
    /\ calls[1].op = "load" /\ calls[2].op = "store"

\* a SELECT whose callback has run on the loaded snapshots
SelectRan == Stmt.type = "select" /\ pc \in {"thrown", "settled", "done"}

(* C11: when doWhere runs with the namespacing flag set (a SELECT over more
   than one table, for the ON of a join and for WHERE), every column
   reference of the expression, those inside nested binary expressions
   included, is looked up under table.column, and with the flag unset under
   the bare column name: on every row the predicate was evaluated against,
   it has the value of the evaluation that hands the flag down to nested
   expressions. *)
C11_EveryLookupNamespaced ==
    SelectRan =>
        /\ \A i \in 1..Len(run.joined) :
               doWhere(Stmt.where, run.joined[i], run.namespace)
                   = doWhereNs(Stmt.where, run.joined[i], run.namespace, run.namespace)
        /\ JoinRan =>
               \A i \in 1..Len(run.tables[1]) : \A j \in 1..Len(run.tables[2]) :
                   doWhere(Stmt.from[2].on, Merge(run.tables[1][i], run.tables[2][j]), TRUE)
                       = doWhereNs(Stmt.from[2].on,
                                   Merge(run.tables[1][i], run.tables[2][j]), TRUE, TRUE)

\* the column names of the rows the backend holds for a table
BareKeys(table) == UNION {DOMAIN r : r \in RowsOf(table)}

\* the keys table.column of the FROM tables of a statement
NamespacedKeys(sqlobj) ==
    UNION {{sqlobj.from[n].table \o "." \o c : c \in BareKeys(sqlobj.from[n].table)} :
              n \in 1..Len(sqlobj.from)}

RECURSIVE FoldedTo(_)
\* the rows after the FROM entries 1..k have been folded left to right, the
\* snapshot of entry k joined under the join kind and ON of entry k
FoldedTo(k) ==
    IF k = 1 THEN run.tables[1]
    ELSE IF Stmt.from[k].join \in {"INNER JOIN", "LEFT JOIN", "RIGHT JOIN", "FULL JOIN"}
    THEN join(FoldedTo(k - 1), run.tables[k], Stmt.from[k].on,
              Stmt.from[k].join \in {"LEFT JOIN", "FULL JOIN"},
              Stmt.from[k].join \in {"RIGHT JOIN", "FULL JOIN"},
              run.namespace)
    ELSE FoldedTo(k - 1)

\* the row sets a SELECT goes through: the loaded tables, the rows after
\* each join step, the joined rows and the rows WHERE kept
RowSets ==
    {run.tables[n] : n \in 1..Len(run.tables)}
    \cup {FoldedTo(k) : k \in 1..Len(run.tables)}
    \cup {run.joined, run.resultRows}

(* C12: in a SELECT over more than one FROM table every key of every row of
   every intermediate row set (the loaded tables, the rows after each join
   step with the unmatched outer rows appended, the rows after WHERE) is
   table.column for a FROM table; over one FROM table every key is a bare
   column name; the flag is the FROM-list length being above one. *)
C12_KeysNamespaced ==
    SelectRan =>
        /\ run.namespace = (Len(Stmt.from) > 1)
        /\ \A set \in RowSets : \A i \in 1..Len(set) :
               DOMAIN set[i] \subseteq
                   (IF Len(Stmt.from) > 1 THEN NamespacedKeys(Stmt)
                    ELSE BareKeys(Stmt.from[1].table))

\* C12's case: a three-table SELECT ending in a RIGHT JOIN left a row merged
\* from all three tables and an unmatched row of the last table alone
C12_Witness ==
    /\ SelectRan
    /\ Len(Stmt.from) = 3
    /\ \E a, b \in 1..Len(run.joined) :
           /\ DOMAIN run.joined[a] = {"t1.g", "t1.v", "t2.g", "t3.g"}
           /\ DOMAIN run.joined[b] = {"t3.g"}
    /\ run.resultRows # <<>>

(* C13: a SELECT over several tables issues one load per FROM entry, in
   FROM order, before anything is joined; nothing is joined while a load
   has not resolved; and whatever the order the loads completed in, the
   snapshot of each entry is the table of that entry and the tables are
   folded left to right in FROM order, each under the join kind and ON of
   its own entry. *)
C13_FoldInFromOrder ==
    (Stmt.type = "select" /\ Len(Stmt.from) > 1 /\ pc \notin {"idle", "ready"}) =>
        /\ Len(calls) = Len(Stmt.from)
        /\ \A n \in DOMAIN calls :
               calls[n].op = "load" /\ calls[n].table = Stmt.from[n].table
        /\ (\E n \in DOMAIN calls : calls[n].promise.state # "resolved") =>
               run = NoRun /\ pc = "select"
        /\ SelectRan =>
               /\ \A n \in DOMAIN calls :
                      /\ calls[n].promise.state = "resolved"
                      /\ run.tables[n] =
                             [i \in 1..Len(calls[n].promise.value) |->
                                 NsRow(Stmt.from[n].table, calls[n].promise.value[i])]
               /\ run.joined = FoldedTo(Len(Stmt.from))

\* C13's case: a three-table SELECT whose entries differ in join kind has
\* resolved with the rows folded from its three snapshots
C13_Witness ==
    /\ Stmt.type = "select"
    /\ Len(Stmt.from) = 3
    /\ Stmt.from[2].join # Stmt.from[3].join
    /\ pc = "done"
    /\ outer.state = "resolved"
    /\ Len(outer.value) = 2
    /\ \A n \in DOMAIN calls : calls[n].promise.value # <<>>

\* C13's case while it happens: the last load has resolved before the first
\* one, and nothing has been joined
C13_WitnessOutOfOrder ==
    /\ Stmt.type = "select"
    /\ Len(Stmt.from) = 3
    /\ pc = "select"
    /\ calls[3].promise.state = "resolved"
    /\ calls[1].promise.state = "pending"
    /\ run = NoRun

\* a single-table SELECT with SUM or COUNT columns, no GROUP BY and no LIMIT
\* has produced its result
UngroupedRan ==
    /\ Stmt.type = "select"
    /\ pc \in {"settled", "done"}
    /\ Len(Stmt.from) = 1
    /\ Stmt.columns # Star
    /\ \E k \in 1..Len(Stmt.columns) : Stmt.columns[k].expr.type = "aggr_func"
    /\ \A k \in 1..Len(Stmt.columns) :
           Stmt.columns[k].expr.type = "aggr_func" =>
               ToUpperCase(Stmt.columns[k].expr.name) \in {"SUM", "COUNT"}
    /\ ~Has(Stmt.groupby)
    /\ ~Has(Stmt.limit)

\* the output column of an aggregate: its alias, or FUNCNAME(argColumn)
OutputName(col) ==
    IF col.as # "" THEN col.as
    ELSE ToUpperCase(col.expr.name) \o "(" \o col.expr.args.expr.column \o ")"

\* the single group row holds, for each aggregate, the sum or the count over
\* all the filtered rows
OneGroupRow ==
    /\ Len(run.result) = 1
    /\ \A k \in 1..Len(Stmt.columns) :
           Stmt.columns[k].expr.type = "aggr_func" =>
               Get(run.result[1], OutputName(Stmt.columns[k]))
                   = IF ToUpperCase(Stmt.columns[k].expr.name) = "SUM"
                     THEN Num(SumOver(run.resultRows, Stmt.columns[k].expr.args.expr.column,
                                      1..Len(run.resultRows)))
                     ELSE Num(Len(run.resultRows))

(* C14: the result of a SELECT with an aggregate column and no GROUP BY is
   exactly one group row, also when no row passed the filter: the row is
   then still there, with COUNT = 0 and SUM = 0. *)
C14_OneGroupRow == UngroupedRan => OneGroupRow

\* C14 on at least one filtered row
C14_OneGroupRowOfSome == (UngroupedRan /\ run.resultRows # <<>>) => OneGroupRow

\* C14 on no filtered row: the result is empty
C14_NoRowOfNone == (UngroupedRan /\ run.resultRows = <<>>) => run.result = <<>>

\* operand expressions over the columns of t1: columns, literals,
\* comparisons and a nested conjunction
Operands ==
    { g1, v1, Lit(0), Lit(1),
      Bin("=", g1, Lit(1)), Bin(">", v1, Lit(0)), Bin("AND", g1, v1) }

\* the load of a single-table statement has resolved and the callback that
\* filters its rows is about to run
Loaded ==
    /\ pc \in {"select", "update", "delete"}
    /\ Len(calls) = 1
    /\ calls[1].promise.state = "resolved"

\* a single-table SELECT without ORDER BY whose WHERE is an OR has run
OrSelectRan ==
    /\ SelectRan
    /\ Len(Stmt.from) = 1
    /\ Stmt.where.type = "binary_expr"
    /\ Stmt.where.operator = "OR"
    /\ ~Has(Stmt.orderby)

(* C15: on every row and for every pair of operand expressions, doWhere on
   the OR of the operands returns what it returns on their AND, the
   conjunction left && right of the two resolved operands; so a SELECT
   whose WHERE is an OR keeps exactly the rows on which both operands are
   truthy, and not a row on which one comparison is true and one false. *)
C15_OrIsAnd ==
    /\ Loaded =>
           \A i \in 1..Len(calls[1].promise.value) : \A l, r \in Operands :
               /\ doWhere(Bin("OR", l, r), calls[1].promise.value[i], FALSE)
                      = doWhere(Bin("AND", l, r), calls[1].promise.value[i], FALSE)
               /\ doWhere(Bin("OR", l, r), calls[1].promise.value[i], FALSE)
                      = AndAnd(getVal(l, calls[1].promise.value[i], FALSE, FALSE),
                               getVal(r, calls[1].promise.value[i], FALSE, FALSE))
    /\ OrSelectRan =>
           run.resultRows =
               SelectIdx(run.joined,
                         {i \in 1..Len(run.joined) :
                             /\ Truthy(getVal(Stmt.where.left, run.joined[i], FALSE, FALSE))
                             /\ Truthy(getVal(Stmt.where.right, run.joined[i], FALSE, FALSE))},
                         1)

\* C15's case: SELECT * ... WHERE g = 1 OR v = 1 over the one row {g: 1, v: 0}
\* has resolved with no row
C15_Witness ==
    /\ OrSelectRan
    /\ Stmt.columns = Star
    /\ pc = "done"
    /\ calls[1].promise.value = <<[g |-> Num(1), v |-> Num(0)]>>
    /\ outer = Resolved(<<>>)

====
